---- MODULE Spec2Model ----
(***************************************************************************)
(* Transactional key-value adapters of pkg/meta: tkv_leveldb.go (two       *)
(* builds: goleveldb and levigo) and tkv_rocksdb.go.                       *)
(*                                                                         *)
(* A store is a function from the keys present to their values; keys and   *)
(* values are sequences of bytes (0..255).  A Go byte slice is a record    *)
(* [isnil, b]: the nil slice and the empty non-nil slice both have length  *)
(* 0 but are different results.                                            *)
(***************************************************************************)
EXTENDS Integers, Sequences, FiniteSets, TLC

VARIABLES
    adapter,   \* which build runs: "goleveldb", "levigo" or "rocksdb"
    db,        \* the engine's committed store
    st,        \* st[t]: where the txn call of caller t stands
    work,      \* work[t]: what the work function of t's call returned
    result,    \* result[t]: what the last finished txn call of t returned
    snap,      \* snap[t]: [ver, kv], the committed store when the call began
    wb,        \* wb[t]: the Transaction's pending writes, in issue order
    stale,     \* rocksdb: keys t wrote that another commit wrote afterwards
    lock,      \* goleveldb: the caller holding the engine's transaction lock
    mutex,     \* goleveldb: the caller holding leveldbClient's sync.Mutex
    last,      \* the most recent kvTxn operation: caller, arguments, return
    wsets,     \* wsets[j]: the keys the j-th change of the store changed
    panicked   \* a panic has ended the process

vars == <<adapter, db, st, work, result, snap, wb, stale, lock, mutex, last,
          wsets, panicked>>

Adapters == {"goleveldb", "levigo", "rocksdb"}

----------------------------------------------------------------------------
\* Go values

GoNil == [isnil |-> TRUE, b |-> <<>>]

GoBytes(s) == [isnil |-> FALSE, b |-> s]

\* append(x, y...): appending nothing to a nil slice leaves it nil
GoAppend(x, y) ==
    IF x.isnil /\ y = <<>> THEN GoNil ELSE GoBytes(x.b \o y)

\* bytes.Compare: -1, 0 or 1 by byte-wise lexicographic order
RECURSIVE BytesCompare(_, _)
BytesCompare(a, b) ==
    IF a = <<>> /\ b = <<>> THEN 0
    ELSE IF a = <<>> THEN -1
    ELSE IF b = <<>> THEN 1
    ELSE IF Head(a) < Head(b) THEN -1
    ELSE IF Head(a) > Head(b) THEN 1
    ELSE BytesCompare(Tail(a), Tail(b))

\* bytes.HasPrefix
HasPrefix(s, p) ==
    /\ Len(s) >= Len(p)
    /\ SubSeq(s, 1, Len(p)) = p

----------------------------------------------------------------------------
\* nextKey, identical in the three files.  The loop increments next[p] as a
\* uint8 (wrapping to 0) and moves left while the byte wrapped; it panics when
\* it runs off the front.  Result: [panic, key], key a Go slice.

\* (mutant) the increment wraps without carrying into the byte before
nextKeyNoCarry(next, p) ==
    [panic |-> FALSE,
     key |-> GoBytes([next EXCEPT ![p] = (next[p] + 1) % 256])]

RECURSIVE nextKeyLoop(_, _)
nextKeyLoop(next, p) ==
    LET inc == [next EXCEPT ![p] = (next[p] + 1) % 256]
    IN  IF inc[p] # 0 THEN [panic |-> FALSE, key |-> GoBytes(inc)]
        ELSE IF p - 1 < 1 THEN [panic |-> TRUE, key |-> GoNil]
        ELSE nextKeyLoop(inc, p - 1)

nextKey(key) ==
    IF Len(key) = 0 THEN [panic |-> FALSE, key |-> GoNil]
    ELSE nextKeyLoop(key, Len(key))

----------------------------------------------------------------------------
\* Counter codec (packCounter / parseCounter live in tkv.go, which is not
\* among the files at hand): a fixed-width encoding of a signed 64-bit
\* counter, here 8 bytes, big-endian, two's complement.  Counters stay
\* within 32 bits in this model, so bytes 1..4 are the sign extension.

CounterWidth == 8

packCounter(n) ==
    [i \in 1..CounterWidth |->
        IF i <= 4 THEN (IF n < 0 THEN 255 ELSE 0)
        ELSE (n \div (256 ^ (CounterWidth - i))) % 256]

\* a value buffer of any other length is a programming error (a panic)
parseCounterPanics(buf) == Len(buf) # CounterWidth

parseCounter(buf) ==
    LET high == IF buf[5] >= 128 THEN buf[5] - 256 ELSE buf[5]
    IN  high * 16777216 + buf[6] * 65536 + buf[7] * 256 + buf[8]

----------------------------------------------------------------------------
\* Stores and write batches

EmptyStore == [k \in {} |-> <<>>]

StorePut(view, k, v) ==
    [x \in (DOMAIN view) \cup {k} |-> IF x = k THEN v ELSE view[x]]

StoreDelete(view, k) ==
    [x \in (DOMAIN view) \ {k} |-> view[x]]

\* a record of a write batch
PutRec(k, v) == [del |-> FALSE, k |-> k, v |-> v]

DelRec(k) == [del |-> TRUE, k |-> k, v |-> <<>>]

BatchKeys(batch) == {batch[i].k : i \in 1..Len(batch)}

\* the engine applies a batch record by record, in the order written
RECURSIVE ApplyBatch(_, _)
ApplyBatch(view, batch) ==
    IF batch = <<>> THEN view
    ELSE LET r == Head(batch)
         IN  ApplyBatch(IF r.del THEN StoreDelete(view, r.k)
                        ELSE StorePut(view, r.k, r.v),
                        Tail(batch))

----------------------------------------------------------------------------
\* Iterators.  An engine iterator walks the keys of its view in byte-wise
\* order; Seek(target) places it on the first key >= target.

MinKey(S) == CHOOSE k \in S : \A j \in S : BytesCompare(k, j) <= 0

RECURSIVE SortedKeys(_)
SortedKeys(S) ==
    IF S = {} THEN <<>>
    ELSE <<MinKey(S)>> \o SortedKeys(S \ {MinKey(S)})

RECURSIVE SeekFrom(_, _, _)
SeekFrom(keys, target, i) ==
    IF i > Len(keys) THEN i
    ELSE IF BytesCompare(keys[i], target) >= 0 THEN i
    ELSE SeekFrom(keys, target, i + 1)

Seek(keys, target) == SeekFrom(keys, target, 1)

\* rocksdb is opened with a fixed-length prefix extractor and the iterators
\* use default read options (no total-order seek): after Seek(target) with a
\* target of at least PrefixLen bytes the iterator is only sure to surface
\* the keys that share the target's first PrefixLen bytes; any of the other
\* keys may be passed over (skip is the choice of those it passes over).
PrefixLen == 9

InDomain(key) == Len(key) >= PrefixLen

SamePrefix(k, target) ==
    /\ InDomain(k)
    /\ SubSeq(k, 1, PrefixLen) = SubSeq(target, 1, PrefixLen)

MaySkip(view, target) ==
    IF InDomain(target)
    THEN {k \in DOMAIN view : ~SamePrefix(k, target)}
    ELSE {}

PrefixSeekView(view, target, skip) ==
    [k \in (DOMAIN view) \ (skip \cap MaySkip(view, target)) |-> view[k]]

\* the filters callers pass: nil (none), or a predicate on key and value
Filters == {"nil", "nonempty", "onebyte"}

FilterOk(filter, k, v) ==
    CASE filter = "nil" -> TRUE
      [] filter = "nonempty" -> Len(v) > 0
      [] filter = "onebyte" -> Len(k) = 1

\* the loop of scanRange0: stop at the first key >= end, keep what the
\* filter accepts.  bytes.Compare reads a nil end as the empty sequence.
RECURSIVE scanLoop(_, _, _, _, _, _)
scanLoop(view, keys, i, end, filter, ret) ==
    IF i > Len(keys) THEN ret
    ELSE IF BytesCompare(keys[i], end.b) >= 0 THEN ret
    ELSE scanLoop(view, keys, i + 1, end, filter,
                  IF FilterOk(filter, keys[i], view[keys[i]])
                  THEN StorePut(ret, keys[i], view[keys[i]])
                  ELSE ret)

scanRange0(view, begin, end, filter) ==
    LET keys == SortedKeys(DOMAIN view)
    IN  scanLoop(view, keys, Seek(keys, begin), end, filter, EmptyStore)

\* the loop of rocksdbTxn.scanKeys: stop at the first key without the prefix
RECURSIVE scanKeysLoop(_, _, _, _)
scanKeysLoop(keys, i, prefix, ret) ==
    IF i > Len(keys) THEN ret
    ELSE IF ~HasPrefix(keys[i], prefix) THEN ret
    ELSE scanKeysLoop(keys, i + 1, prefix, ret \cup {keys[i]})

rocksScanKeys(view, prefix) ==
    LET keys == SortedKeys(DOMAIN view)
    IN  scanKeysLoop(keys, Seek(keys, prefix), prefix, {})

\* it.Seek(prefix); it.Valid()
seekValid(view, prefix) ==
    LET keys == SortedKeys(DOMAIN view)
    IN  Seek(keys, prefix) <= Len(keys)

----------------------------------------------------------------------------
\* What each build reads.
\*   goleveldb: leveldb.Transaction reads its own writes over the store as of
\*              OpenTransaction (no other writer runs while it is open).
\*   levigo:    get reads the snapshot taken in txn (tx.ro); the iterators of
\*              scanRange0 and exist are made with fresh read options, with no
\*              snapshot, so they read the committed store as it is now; the
\*              write batch is never read.
\*   rocksdb:   the optimistic transaction is begun without a snapshot; Get
\*              and the iterators read the committed store as it is now, under
\*              the transaction's own writes.

getView(t) ==
    CASE adapter = "goleveldb" -> ApplyBatch(snap[t].kv, wb[t])
      [] adapter = "levigo" -> snap[t].kv
      [] adapter = "rocksdb" -> ApplyBatch(db, wb[t])

iterView(t) ==
    CASE adapter = "goleveldb" -> ApplyBatch(snap[t].kv, wb[t])
      [] adapter = "levigo" -> db
      [] adapter = "rocksdb" -> ApplyBatch(db, wb[t])

\* the version of the committed store a read is answered from
getVer(t) == IF adapter = "rocksdb" THEN Len(wsets) ELSE snap[t].ver

iterVer(t) == IF adapter = "goleveldb" THEN snap[t].ver ELSE Len(wsets)

\* the keys an iterator may pass over after Seek(target)
Skips(t, target) ==
    IF adapter = "rocksdb" THEN SUBSET MaySkip(iterView(t), target) ELSE {{}}

\* get: goleveldb maps ErrNotFound to nil; levigo maps every empty value to
\* nil; rocksdb maps !Exists() to nil and copies the value otherwise.
get(view, key) ==
    CASE adapter = "goleveldb" ->
            IF key \in DOMAIN view THEN GoBytes(view[key]) ELSE GoNil
      [] adapter = "levigo" ->
            IF key \in DOMAIN view /\ Len(view[key]) # 0
            THEN GoBytes(view[key]) ELSE GoNil
      [] adapter = "rocksdb" ->
            IF key \in DOMAIN view THEN GoBytes(view[key]) ELSE GoNil

\* exist: goleveldb asks Has(prefix), the presence of that very key; levigo
\* and rocksdb seek an iterator to prefix and report whether it is valid.
exist(view, prefix) ==
    IF adapter = "goleveldb" THEN prefix \in DOMAIN view
    ELSE seekValid(view, prefix)

\* scanKeys: the leveldb builds take the keys of scanValues(prefix, nil);
\* rocksdb walks an iterator while the keys have the prefix.  The result is
\* modelled as the set of the keys returned.
scanKeys(view, prefix) ==
    IF adapter = "rocksdb" THEN rocksScanKeys(view, prefix)
    ELSE DOMAIN scanRange0(view, prefix, nextKey(prefix).key, "nil")

\* append: new := append(tx.get(key), value...)
appendNew(view, key, value) == GoAppend(get(view, key), value)

\* incrBy: the counter read (0 when the buffer is empty) plus value
incrPanics(view, key) ==
    /\ Len(get(view, key).b) > 0
    /\ parseCounterPanics(get(view, key).b)

incrNew(view, key, value) ==
    LET buf == get(view, key).b
        cur == IF Len(buf) > 0 THEN parseCounter(buf) ELSE 0
    IN  IF value # 0 THEN cur + value ELSE cur

\* set: a Put appended to the pending writes
setBatch(batch, key, value) == Append(batch, PutRec(key, value))

\* dels: one Delete per key, in argument order
RECURSIVE delsBatch(_, _)
delsBatch(batch, keys) ==
    IF keys = <<>> THEN batch
    ELSE delsBatch(Append(batch, DelRec(Head(keys))), Tail(keys))

\* incrBy writes only when value # 0
incrBatch(batch, key, value, new) ==
    IF value # 0 THEN setBatch(batch, key, packCounter(new)) ELSE batch

----------------------------------------------------------------------------
\* State machine of Client.txn

Callers == {1, 2}

NoCaller == 0

\* bound: the writes one Transaction buffers
MaxWrites == 2

Errors == {"e1", "e2"}

\* the error rocksdb's Commit returns when validation finds a conflict
Busy == "busy"

Ret0 ==
    [isnil |-> TRUE, b |-> <<>>, n |-> 0, m |-> EmptyStore, ks |-> {},
     ok |-> FALSE, l |-> <<>>, panic |-> FALSE]

RetBytes(g) == [Ret0 EXCEPT !.isnil = g.isnil, !.b = g.b]

RetPanic == [Ret0 EXCEPT !.panic = TRUE]

Op0(t, op) ==
    [t |-> t, op |-> op, key |-> <<>>, val |-> <<>>, d |-> 0, end |-> <<>>,
     filter |-> "nil", keys |-> <<>>, ver |-> 0, ret |-> Ret0]

\* each caller makes one txn call
Ended(t) == st[t] \in {"Committed", "RolledBack", "CommitFailed"}

\* everything but the committed store, which each specification draws
InitBase ==
    /\ adapter \in Adapters
    /\ st = [t \in Callers |-> "None"]
    /\ work = [t \in Callers |-> "none"]
    /\ result = [t \in Callers |-> "none"]
    /\ snap = [t \in Callers |-> [ver |-> 0, kv |-> EmptyStore]]
    /\ wb = [t \in Callers |-> <<>>]
    /\ stale = [t \in Callers |-> {}]
    /\ lock = NoCaller
    /\ mutex = NoCaller
    /\ last = Op0(NoCaller, "none")
    /\ wsets = <<>>
    /\ panicked = FALSE

\* txn up to the call of f: goleveldb opens the engine transaction (which
\* waits while another is open); levigo takes a snapshot and a write batch;
\* rocksdb begins an optimistic transaction.
Begin(t) ==
    /\ ~panicked
    /\ st[t] = "None"
    /\ adapter = "goleveldb" => lock = NoCaller
    /\ lock' = IF adapter = "goleveldb" THEN t ELSE lock
    /\ st' = [st EXCEPT ![t] = "Running"]
    /\ work' = [work EXCEPT ![t] = "none"]
    /\ result' = [result EXCEPT ![t] = "none"]
    /\ snap' = [snap EXCEPT ![t] = [ver |-> Len(wsets), kv |-> db]]
    /\ wb' = [wb EXCEPT ![t] = <<>>]
    /\ stale' = [stale EXCEPT ![t] = {}]
    /\ last' = Op0(t, "begin")
    /\ UNCHANGED <<adapter, db, mutex, wsets, panicked>>

Running(t) == ~panicked /\ st[t] = "Running"

\* what a read leaves alone
ReadFrame == UNCHANGED <<adapter, db, st, work, result, snap, wb,
                         stale, lock, mutex, wsets, panicked>>

\* what a write leaves alone
WriteFrame == UNCHANGED <<adapter, db, st, work, result, snap, stale,
                          lock, mutex, wsets>>

Get(t, key) ==
    /\ Running(t)
    /\ last' = [Op0(t, "get") EXCEPT !.key = key, !.ver = getVer(t),
                    !.ret = RetBytes(get(getView(t), key))]
    /\ ReadFrame

\* gets: one get per key, in argument order
Gets(t, keys) ==
    /\ Running(t)
    /\ last' = [Op0(t, "gets") EXCEPT !.keys = keys, !.ver = getVer(t),
                    !.ret = [Ret0 EXCEPT !.l =
                        [i \in 1..Len(keys) |-> get(getView(t), keys[i])]]]
    /\ ReadFrame

\* scanRange0; scanRange(begin, end) is the call with filter nil
ScanRange0(t, begin, end, filter) ==
    /\ Running(t)
    /\ \E skip \in Skips(t, begin) : last' = [Op0(t, "scanRange0") EXCEPT !.key = begin, !.end = end,
                    !.filter = filter, !.ver = iterVer(t),
                    !.ret = [Ret0 EXCEPT !.m =
                        scanRange0(PrefixSeekView(iterView(t), begin, skip),
                                   begin, GoBytes(end), filter)]]
    /\ ReadFrame

\* scanValues(prefix, filter) = scanRange0(prefix, nextKey(prefix), filter);
\* nextKey panics on a prefix of 0xFF bytes only
ScanValues(t, prefix, filter) ==
    /\ Running(t)
    /\ \E skip \in Skips(t, prefix) :
       IF nextKey(prefix).panic
       THEN /\ panicked' = TRUE
            /\ last' = [Op0(t, "scanValues") EXCEPT !.key = prefix,
                            !.filter = filter, !.ret = RetPanic]
       ELSE /\ panicked' = panicked
            /\ last' = [Op0(t, "scanValues") EXCEPT !.key = prefix,
                            !.filter = filter, !.ver = iterVer(t),
                            !.ret = [Ret0 EXCEPT !.m =
                                scanRange0(
                                    PrefixSeekView(iterView(t), prefix, skip),
                                    prefix, nextKey(prefix).key, filter)]]
    /\ UNCHANGED <<adapter, db, st, work, result, snap, wb, stale,
                   lock, mutex, wsets>>

ScanKeys(t, prefix) ==
    /\ Running(t)
    /\ \E skip \in Skips(t, prefix) :
       IF adapter # "rocksdb" /\ nextKey(prefix).panic
       THEN /\ panicked' = TRUE
            /\ last' = [Op0(t, "scanKeys") EXCEPT !.key = prefix,
                            !.ret = RetPanic]
       ELSE /\ panicked' = panicked
            /\ last' = [Op0(t, "scanKeys") EXCEPT !.key = prefix,
                            !.ver = iterVer(t),
                            !.ret = [Ret0 EXCEPT !.ks =
                                scanKeys(
                                    PrefixSeekView(iterView(t), prefix, skip),
                                    prefix)]]
    /\ UNCHANGED <<adapter, db, st, work, result, snap, wb, stale,
                   lock, mutex, wsets>>

Exist(t, prefix) ==
    /\ Running(t)
    /\ \E skip \in Skips(t, prefix) : last' = [Op0(t, "exist") EXCEPT !.key = prefix, !.ver = iterVer(t),
                    !.ret = [Ret0 EXCEPT !.ok =
                        exist(PrefixSeekView(iterView(t), prefix, skip),
                              prefix)]]
    /\ ReadFrame

Set(t, key, value) ==
    /\ Running(t)
    /\ Len(wb[t]) < MaxWrites
    /\ wb' = [wb EXCEPT ![t] = setBatch(@, key, value)]
    /\ last' = [Op0(t, "set") EXCEPT !.key = key, !.val = value]
    /\ panicked' = panicked
    /\ WriteFrame

AppendOp(t, key, value) ==
    /\ Running(t)
    /\ Len(wb[t]) < MaxWrites
    /\ LET new == appendNew(getView(t), key, value)
       IN  /\ wb' = [wb EXCEPT ![t] = setBatch(@, key, new.b)]
           /\ last' = [Op0(t, "append") EXCEPT !.key = key, !.val = value,
                           !.ver = getVer(t), !.ret = RetBytes(new)]
    /\ panicked' = panicked
    /\ WriteFrame

IncrBy(t, key, value) ==
    /\ Running(t)
    /\ value # 0 => Len(wb[t]) < MaxWrites
    /\ IF incrPanics(getView(t), key)
       THEN /\ panicked' = TRUE
            /\ wb' = wb
            /\ last' = [Op0(t, "incrBy") EXCEPT !.key = key, !.d = value,
                            !.ret = RetPanic]
       ELSE LET new == incrNew(getView(t), key, value)
            IN  /\ panicked' = panicked
                /\ wb' = [wb EXCEPT ![t] = incrBatch(@, key, value, new)]
                /\ last' = [Op0(t, "incrBy") EXCEPT !.key = key, !.d = value,
                                !.ver = getVer(t),
                                !.ret = [Ret0 EXCEPT !.n = new]]
    /\ WriteFrame

Dels(t, keys) ==
    /\ Running(t)
    /\ Len(wb[t]) + Len(keys) <= MaxWrites
    /\ wb' = [wb EXCEPT ![t] = delsBatch(@, keys)]
    /\ last' = [Op0(t, "dels") EXCEPT !.keys = keys]
    /\ panicked' = panicked
    /\ WriteFrame

\* f returns r: nil or an error.  On nil the goleveldb build takes the
\* client's mutex before it commits.  last notes the return, with the keys
\* of the writes then pending, in issue order.
WorkReturn(t, r) ==
    /\ Running(t)
    /\ (adapter = "goleveldb" /\ r = "nil") => mutex = NoCaller
    /\ mutex' = IF adapter = "goleveldb" /\ r = "nil" THEN t ELSE mutex
    /\ work' = [work EXCEPT ![t] = r]
    /\ st' = [st EXCEPT ![t] = IF r = "nil" THEN "Committing" ELSE "Aborting"]
    /\ last' = [Op0(t, "return") EXCEPT
                    !.keys = [i \in 1..Len(wb[t]) |-> wb[t][i].k]]
    /\ UNCHANGED <<adapter, db, result, snap, wb, stale, lock, wsets,
                   panicked>>

\* (mutant) the error path writes the pending batch out
discardApplies(store, batch) == ApplyBatch(store, batch)

\* the store after the error path of txn: Discard (goleveldb), dropping the
\* write batch (levigo), Rollback (rocksdb)
discard(store, batch) == store

\* what txn returns on the error path
errorReturn(err) == err

Rollback(t) ==
    /\ ~panicked
    /\ st[t] = "Aborting"
    /\ db' = discard(db, wb[t])
    /\ result' = [result EXCEPT ![t] = errorReturn(work[t])]
    /\ st' = [st EXCEPT ![t] = "RolledBack"]
    /\ wb' = [wb EXCEPT ![t] = <<>>]
    /\ stale' = [stale EXCEPT ![t] = {}]
    /\ lock' = IF adapter = "goleveldb" THEN NoCaller ELSE lock
    /\ UNCHANGED <<adapter, work, snap, mutex, last, wsets, panicked>>

\* rocksdb validates at Commit: a key this transaction wrote that another
\* commit has written since makes Commit return an error
commitFails(t) == adapter = "rocksdb" /\ stale[t] # {}

RECURSIVE Reverse(_)
Reverse(q) == IF q = <<>> THEN <<>> ELSE Append(Reverse(Tail(q)), Head(q))

\* (mutant) the commit applies the batch last record first
commitReversed(store, batch) == ApplyBatch(store, Reverse(batch))

\* the store after a commit that goes through
commitStore(store, batch) == ApplyBatch(store, batch)

\* the keys at which two stores differ
Changed(s1, s2) ==
    {k \in (DOMAIN s1) \cup (DOMAIN s2) :
        ~(/\ k \in DOMAIN s1 /\ k \in DOMAIN s2
          /\ s1[k] = s2[k])}

\* keys of running rocksdb transactions overwritten by the commit of t
staleAfter(t, u) ==
    IF adapter = "rocksdb" /\ u # t /\ st[u] \in {"Running", "Committing"}
    THEN stale[u] \cup (BatchKeys(wb[t]) \cap BatchKeys(wb[u]))
    ELSE stale[u]

Commit(t) ==
    /\ ~panicked
    /\ st[t] = "Committing"
    /\ IF commitFails(t)
       THEN /\ result' = [result EXCEPT ![t] = Busy]
            /\ st' = [st EXCEPT ![t] = "CommitFailed"]
            /\ stale' = [stale EXCEPT ![t] = {}]
            /\ UNCHANGED <<db, wsets>>
       ELSE /\ db' = commitStore(db, wb[t])
            /\ wsets' = IF Changed(db, db') = {} THEN wsets
                        ELSE Append(wsets, Changed(db, db'))
            /\ result' = [result EXCEPT ![t] = "nil"]
            /\ st' = [st EXCEPT ![t] = "Committed"]
            /\ stale' = [u \in Callers |->
                            IF u = t THEN {} ELSE staleAfter(t, u)]
    /\ wb' = [wb EXCEPT ![t] = <<>>]
    /\ lock' = IF adapter = "goleveldb" THEN NoCaller ELSE lock
    /\ mutex' = IF adapter = "goleveldb" THEN NoCaller ELSE mutex
    /\ UNCHANGED <<adapter, work, snap, last, panicked>>

----------------------------------------------------------------------------
\* Keys, values and stores the specifications draw from

Ka == <<97>>

KaFF == <<97, 255>>

Kb == <<98>>

Kc == <<99>>

KFF == <<255>>

\* two keys of PrefixLen bytes ("A" and an 8-byte number): different prefixes
L1 == <<65, 0, 0, 0, 0, 0, 0, 0, 1>>

L2 == <<65, 0, 0, 0, 0, 0, 0, 0, 2>>

Returns == {"nil"} \cup Errors

\* Spec: two callers share one Client; each work function issues at most
\* ConcWrites write operations.  gets is left to SpecSeq: it is a loop of
\* get, which the work functions here call directly.
ConcWrites == 1

ConcKeys == {Ka, Kb}

ConcStores ==
    {EmptyStore,
     StorePut(StorePut(EmptyStore, Ka, packCounter(1)), Kb, <<1>>)}

MayWrite(t) == Len(wb[t]) < ConcWrites

Init ==
    /\ InitBase
    /\ db \in ConcStores

Next ==
    \E t \in Callers :
        \/ Begin(t)
        \/ \E k \in ConcKeys : Get(t, k)
        \/ ScanRange0(t, Ka, Kc, "nil")
        \/ ScanValues(t, Ka, "nil")
        \/ ScanKeys(t, Kb)
        \/ Exist(t, Kb)
        \/ \E k \in ConcKeys : MayWrite(t) /\ Set(t, k, <<7>>)
        \/ MayWrite(t) /\ AppendOp(t, Kb, <<2>>)
        \/ \E d \in {0, 1} : MayWrite(t) /\ IncrBy(t, Ka, d)
        \/ \E ks \in {<<Ka>>, <<Ka, Kb>>} : MayWrite(t) /\ Dels(t, ks)
        \/ \E r \in Returns : WorkReturn(t, r)
        \/ Rollback(t)
        \/ Commit(t)

Spec == Init /\ [][Next]_vars

\* SpecSeq: the calls run one after the other (caller 1, then caller 2)
SeqKeys == {Ka, Kb}

SeqValues == {<<>>, <<7>>}

SeqSuffixes == {<<>>, <<2>>}

SeqDeltas == {-1, 0, 2}

SeqStores ==
    {EmptyStore,
     StorePut(StorePut(EmptyStore, Ka, <<1>>), Kb, packCounter(1))}

InitSeq ==
    /\ InitBase
    /\ db \in SeqStores

NextSeq ==
    \/ Begin(1)
    \/ Ended(1) /\ Begin(2)
    \/ \E t \in Callers :
        \/ \E k \in SeqKeys : Get(t, k)
        \/ Gets(t, <<Ka, Kb>>)
        \/ ScanRange0(t, Ka, Kc, "nil")
        \/ \E k \in SeqKeys, v \in SeqValues : Set(t, k, v)
        \/ \E v \in SeqSuffixes : AppendOp(t, Ka, v)
        \/ \E d \in SeqDeltas : IncrBy(t, Kb, d)
        \/ \E ks \in {<<Ka>>, <<Kb, Ka>>} : Dels(t, ks)
        \/ \E r \in Returns : WorkReturn(t, r)
        \/ Rollback(t)
        \/ Commit(t)

SpecSeq == InitSeq /\ [][NextSeq]_vars

\* SpecScan: one caller reading stores of short and long keys
FullStore ==
    StorePut(StorePut(StorePut(StorePut(EmptyStore,
        L2, <<3>>), Ka, <<1>>), KaFF, <<>>), Kb, <<2>>)

ScanStores ==
    {[k \in S |-> FullStore[k]] : S \in SUBSET (DOMAIN FullStore)}

ScanPrefixes == {<<>>, L1, Ka, KaFF, Kb, KFF}

ScanBegins == {<<>>, L1, Ka, Kb}

ScanEnds == {Ka, KaFF, Kb, KFF}

InitScan ==
    /\ InitBase
    /\ db \in ScanStores

NextScan ==
    \/ Begin(1)
    \/ \E k \in {L2, Ka, KaFF, Kb} : Get(1, k)
    \/ Gets(1, <<Kb, KaFF>>)
    \/ \E b \in ScanBegins, e \in ScanEnds, f \in Filters :
            ScanRange0(1, b, e, f)
    \/ \E prefix \in ScanPrefixes, f \in {"nil", "nonempty"} :
            ScanValues(1, prefix, f)
    \/ \E prefix \in ScanPrefixes : ScanKeys(1, prefix)
    \/ \E prefix \in ScanPrefixes : Exist(1, prefix)
    \/ MayWrite(1) /\ Set(1, KaFF, <<7>>)
    \/ \E r \in Returns : WorkReturn(1, r)
    \/ Rollback(1)
    \/ Commit(1)

SpecScan == InitScan /\ [][NextScan]_vars

\* SpecKey: one Transaction calling nextKey on keys of up to MaxKeyLen bytes
MaxKeyLen == 3

KeyBytes == {0, 97, 254, 255}

KeysOfLen(n) == [1..n -> KeyBytes]

NextKeyInputs == UNION {KeysOfLen(n) : n \in 0..MaxKeyLen}

\* a call of tx.nextKey(key) by the work function; the panic ends the process
NextKeyOp(t, key) ==
    /\ Running(t)
    /\ panicked' = nextKey(key).panic
    /\ last' = [Op0(t, "nextKey") EXCEPT !.key = key,
                    !.ret = IF nextKey(key).panic THEN RetPanic
                            ELSE RetBytes(nextKey(key).key)]
    /\ UNCHANGED <<adapter, db, st, work, result, snap, wb, stale,
                   lock, mutex, wsets>>

InitKey ==
    /\ InitBase
    /\ db = EmptyStore

NextKeyStep ==
    \/ Begin(1)
    \/ \E key \in NextKeyInputs : NextKeyOp(1, key)

SpecKey == InitKey /\ [][NextKeyStep]_vars

----------------------------------------------------------------------------
\* Engine errors.  The calls below are the same methods on the path where the
\* engine reports an I/O or corruption error; last notes them as "op:error".

\* the error an engine call reports
EngineError == "ioerr"

ErrorFrame == UNCHANGED <<adapter, db, st, work, result, snap, wb, stale,
                          lock, mutex, wsets>>

\* get when the engine's Get fails.  goleveldb panics on any error but
\* ErrNotFound, levigo on any error.  rocksdb tests value.Exists() before
\* err: with a value that does not exist it returns nil and the error is
\* dropped, otherwise it panics; which of the two the binding hands back with
\* an error is not fixed by the adapter (absent is the choice).
GetFault(t, key) ==
    /\ Running(t)
    /\ \E absent \in (IF adapter = "rocksdb" THEN BOOLEAN ELSE {FALSE}) :
        /\ panicked' = ~absent
        /\ last' = [Op0(t, "get:error") EXCEPT !.key = key,
                        !.ret = IF absent THEN RetBytes(GoNil) ELSE RetPanic]
    /\ ErrorFrame

\* the keys an iterator yields before it fails: the first n from Seek(begin)
Yielded(view, begin, n) ==
    LET keys == SortedKeys(DOMAIN view)
        from == Seek(keys, begin)
    IN  {keys[i] : i \in {j \in from..(from + n - 1) : j <= Len(keys)}}

\* the iterator has n keys to yield from Seek(begin)
CanYield(view, begin, n) ==
    LET keys == SortedKeys(DOMAIN view)
    IN  Seek(keys, begin) + n - 1 <= Len(keys)

\* the iterator can yield n keys, and the loop of scanRange0 reads them all
\* (none is at or past end)
FailsAfter(view, begin, end, n) ==
    LET keys == SortedKeys(DOMAIN view)
        from == Seek(keys, begin)
    IN  /\ CanYield(view, begin, n)
        /\ \A i \in from..(from + n - 1) : BytesCompare(keys[i], end.b) < 0

\* scanRange0 when the iterator fails after n keys: it.Valid() turns false
\* and the loop ends.  The leveldb builds ask the iterator for its error
\* after the loop and panic; rocksdb asks inside the loop only, which the
\* failed iterator never enters again, and returns what it has collected.
ScanFault(t, begin, end, filter, n) ==
    /\ Running(t)
    /\ \E skip \in Skips(t, begin) :
        LET view == PrefixSeekView(iterView(t), begin, skip)
            seen == [k \in Yielded(view, begin, n) |-> view[k]]
        IN  /\ FailsAfter(view, begin, GoBytes(end), n)
            /\ panicked' = (adapter # "rocksdb")
            /\ last' = [Op0(t, "scanRange0:error") EXCEPT !.key = begin,
                            !.end = end, !.filter = filter,
                            !.ret = IF adapter # "rocksdb" THEN RetPanic
                                    ELSE [Ret0 EXCEPT !.m =
                                        scanRange0(seen, begin, GoBytes(end),
                                                   filter)]]
    /\ ErrorFrame

\* scanKeys when the iterator fails after n keys with the prefix: the leveldb
\* builds go through scanValues and scanRange0 and panic; rocksdb's own loop
\* ends on the failed iterator and returns the keys collected
ScanKeysFault(t, prefix, n) ==
    /\ Running(t)
    /\ \E skip \in Skips(t, prefix) :
        LET view == PrefixSeekView(iterView(t), prefix, skip)
            seen == [k \in Yielded(view, prefix, n) |-> view[k]]
        IN  /\ CanYield(view, prefix, n)
            /\ \A k \in Yielded(view, prefix, n) : HasPrefix(k, prefix)
            /\ panicked' = (adapter # "rocksdb")
            /\ last' = [Op0(t, "scanKeys:error") EXCEPT !.key = prefix,
                            !.ret = IF adapter # "rocksdb" THEN RetPanic
                                    ELSE [Ret0 EXCEPT !.ks =
                                        rocksScanKeys(seen, prefix)]]
    /\ ErrorFrame

\* exist when the engine fails: goleveldb panics on the error of Has, levigo
\* on the iterator's error after Seek; rocksdb returns it.Valid(), false on a
\* failed iterator
ExistFault(t, prefix) ==
    /\ Running(t)
    /\ panicked' = (adapter # "rocksdb")
    /\ last' = [Op0(t, "exist:error") EXCEPT !.key = prefix,
                    !.ret = IF adapter # "rocksdb" THEN RetPanic
                            ELSE [Ret0 EXCEPT !.ok = FALSE]]
    /\ ErrorFrame

\* the commit when the engine fails to write: the leveldb builds panic;
\* rocksdb returns the error of txn.Commit() to the caller
CommitFault(t) ==
    /\ ~panicked
    /\ st[t] = "Committing"
    /\ IF adapter = "rocksdb"
       THEN /\ result' = [result EXCEPT ![t] = EngineError]
            /\ st' = [st EXCEPT ![t] = "CommitFailed"]
            /\ stale' = [stale EXCEPT ![t] = {}]
            /\ wb' = [wb EXCEPT ![t] = <<>>]
            /\ panicked' = panicked
       ELSE /\ panicked' = TRUE
            /\ UNCHANGED <<result, st, stale, wb>>
    /\ UNCHANGED <<adapter, db, work, snap, lock, mutex, last, wsets>>

\* SpecFault: one caller on an engine that may fail
FaultStores ==
    {[k \in S |-> StorePut(StorePut(EmptyStore, Ka, <<1>>), Kb, <<2>>)[k]] :
        S \in SUBSET {Ka, Kb}}

InitFault ==
    /\ InitBase
    /\ db \in FaultStores

NextFault ==
    \/ Begin(1)
    \/ Exist(1, Ka)
    \/ ExistFault(1, Ka)
    \/ ScanRange0(1, Ka, Kc, "nil")
    \/ \E n \in 0..2 : ScanFault(1, Ka, Kc, "nil", n)
    \/ ScanKeys(1, Ka)
    \/ \E n \in 0..1 : ScanKeysFault(1, Ka, n)
    \/ \E k \in {Ka, Kb} : Get(1, k)
    \/ \E k \in {Ka, Kb} : GetFault(1, k)
    \/ MayWrite(1) /\ Set(1, Kb, <<7>>)
    \/ \E r \in Returns : WorkReturn(1, r)
    \/ Rollback(1)
    \/ Commit(1)
    \/ CommitFault(1)

SpecFault == InitFault /\ [][NextFault]_vars

\* SpecIncr: two callers on one Client, each work function reading the
\* counter at Ka and adding its own delta to it once
IncrDelta(t) == t

IncrStores ==
    {EmptyStore,
     StorePut(EmptyStore, Ka, packCounter(1)),
     StorePut(StorePut(EmptyStore, Ka, packCounter(5)), Kb, <<1>>)}

InitIncr ==
    /\ InitBase
    /\ db \in IncrStores

NextIncr ==
    \E t \in Callers :
        \/ Begin(t)
        \/ Get(t, Ka)
        \/ wb[t] = <<>> /\ IncrBy(t, Ka, IncrDelta(t))
        \/ \E r \in Returns : WorkReturn(t, r)
        \/ Rollback(t)
        \/ Commit(t)

SpecIncr == InitIncr /\ [][NextIncr]_vars

----------------------------------------------------------------------------
\* Claims

\* the place of the last record of batch that writes k (0: none does)
LastWrite(batch, k) ==
    IF k \in BatchKeys(batch)
    THEN CHOOSE i \in 1..Len(batch) :
            /\ batch[i].k = k
            /\ \A j \in (i + 1)..Len(batch) : batch[j].k # k
    ELSE 0

SameAt(s1, s2, k) == k \notin Changed(s1, s2)

\* C1: when the work function returns an error, whatever it wrote before,
\* txn returns that very error and the committed store is left as it was:
\* the store changes only in the commit of a call whose work returned nil.
C1_FailedWorkLeavesStore ==
    [][/\ \A t \in Callers :
            (st[t] = "Aborting" /\ st'[t] # "Aborting") =>
                /\ st'[t] = "RolledBack"
                /\ work[t] \in Errors
                /\ result'[t] = work[t]
                /\ db' = db
       /\ db' # db =>
            \E t \in Callers :
                /\ st[t] = "Committing" /\ work[t] = "nil"
                /\ st'[t] = "Committed"]_vars

\* C1 witness: the first call wrote twice, its work returned e2, txn
\* returned e2 and the store is one of the initial ones
C1_Witness ==
    /\ st[1] = "RolledBack"
    /\ result[1] = "e2"
    /\ last.op = "return" /\ last.t = 1 /\ Len(last.keys) = 2
    /\ db \in SeqStores

C2_ReadYourWrites ==
    [][\A t \in Callers, k \in SeqKeys :
        (last.t = t /\ Get(t, k)) =>
            /\ (last.op = "set" /\ last.key = k) =>
                    /\ last'.ret.b = last.val
                    /\ last.val # <<>> => ~last'.ret.isnil
            /\ (last.op = "dels" /\ \E i \in 1..Len(last.keys) :
                                        last.keys[i] = k) =>
                    last'.ret.isnil]_vars

\* the counter a store holds at k: 0 when k is absent or empty
CounterAt(store, k) ==
    IF k \in DOMAIN store /\ Len(store[k]) > 0
    THEN parseCounter(store[k]) ELSE 0

\* k holds a counter (or nothing) in store
IsCounterAt(store, k) ==
    k \in DOMAIN store /\ Len(store[k]) > 0 => Len(store[k]) = CounterWidth

\* C6: the first incrBy(K, d1) of a Transaction on a counter key with
\* committed value c returns c + d1; an incrBy(K, d2) right after it returns
\* c + d1 + d2, and that is the counter the commit will store at K.
C6_IncrByTwice ==
    [][\A t \in Callers, d \in SeqDeltas :
        (IncrBy(t, Kb, d) /\ ~last'.ret.panic) =>
            /\ (Kb \notin BatchKeys(wb[t]) /\ IsCounterAt(db, Kb)) =>
                    last'.ret.n = CounterAt(db, Kb) + d
            /\ (last.t = t /\ last.op = "incrBy" /\ last.key = Kb) =>
                    /\ last'.ret.n = last.ret.n + d
                    /\ CounterAt(ApplyBatch(db, wb'[t]), Kb) = last'.ret.n]_vars

\* the value a store holds at k: empty when k is absent
ValueAt(store, k) == IF k \in DOMAIN store THEN store[k] ELSE <<>>

\* C7: the first append(K, s1) of a Transaction on a key with current value v
\* returns v + s1; an append(K, s2) right after it returns v + s1 + s2, and
\* that is the value the commit will store at K.
C7_AppendTwice ==
    [][\A t \in Callers, s2 \in SeqSuffixes :
        AppendOp(t, Ka, s2) =>
            /\ Ka \notin BatchKeys(wb[t]) =>
                    last'.ret.b = ValueAt(db, Ka) \o s2
            /\ (last.t = t /\ last.op = "append" /\ last.key = Ka) =>
                    /\ last'.ret.b = last.ret.b \o s2
                    /\ ValueAt(ApplyBatch(db, wb'[t]), Ka) = last'.ret.b]_vars

\* the store a Transaction is to read: the committed store as of its start
\* under the writes it has issued
OwnView(t) == ApplyBatch(snap[t].kv, wb[t])

\* C8: incrBy(K, 0) leaves the pending writes as they are and returns the
\* current counter of K in the Transaction (0 when K is absent); a key absent
\* before is absent from what the commit will store.
C8_IncrByZero ==
    [][\A t \in Callers :
        (IncrBy(t, Kb, 0) /\ IsCounterAt(OwnView(t), Kb)) =>
            /\ wb' = wb
            /\ last'.ret.n = CounterAt(OwnView(t), Kb)
            /\ Kb \notin DOMAIN OwnView(t) =>
                    Kb \notin DOMAIN ApplyBatch(db, wb'[t])]_vars

\* C4: every read of a running Transaction is answered from the store as it
\* was when the Transaction started.  Stated for a Transaction that has
\* written nothing itself: each read returns what the same read returns on
\* the store of its start, whatever other calls have committed since.
C4_ReadsFromStartView ==
    [][\A t \in Callers :
        wb[t] = <<>> =>
            /\ \A k \in ConcKeys :
                Get(t, k) => last'.ret = RetBytes(get(snap[t].kv, k))
            /\ ScanRange0(t, Ka, Kc, "nil") =>
                last'.ret.m = scanRange0(snap[t].kv, Ka, GoBytes(Kc), "nil")
            /\ ScanValues(t, Ka, "nil") =>
                last'.ret.m =
                    scanRange0(snap[t].kv, Ka, nextKey(Ka).key, "nil")
            /\ ScanKeys(t, Kb) => last'.ret.ks = scanKeys(snap[t].kv, Kb)
            /\ Exist(t, Kb) => last'.ret.ok = exist(snap[t].kv, Kb)]_vars

\* the keys of ConcKeys a read covers: the key of a get, the range of a scan
Covered(op) ==
    CASE op.op = "get" -> {op.key}
      [] op.op = "scanRange0" ->
            {k \in ConcKeys : /\ BytesCompare(op.key, k) <= 0
                              /\ BytesCompare(k, op.end) < 0}
      [] OTHER -> {}

\* two reads split commit j: they cover two different keys it wrote, one read
\* is answered from a store that has the commit, the other from one that has
\* not
Split(r1, r2, j) ==
    /\ \E k1 \in Covered(r1) \cap wsets[j], k2 \in Covered(r2) \cap wsets[j] :
            k1 # k2
    /\ \/ r1.ver < j /\ j <= r2.ver
       \/ r2.ver < j /\ j <= r1.ver

\* C5: a Transaction never reads a write that is not committed, and never
\* reads some but not all of the writes of one commit.  Stated for a
\* Transaction that has written nothing itself: a get returns what the
\* committed store holds now or held at its start, and no two reads in a row
\* split a commit.
C5_NoDirtyNoFracturedRead ==
    [][\A t \in Callers :
        (wb[t] = <<>> /\ st[t] = "Running") =>
            /\ \A k \in ConcKeys :
                Get(t, k) =>
                    \/ last'.ret = RetBytes(get(db, k))
                    \/ last'.ret = RetBytes(get(snap[t].kv, k))
            /\ (last.t = t /\ last'.t = t) =>
                    \A j \in 1..Len(wsets) : ~Split(last, last', j)]_vars

\* the part of a store in the range [begin, end) that filter accepts
InRange(store, begin, end, filter) ==
    LET keep == {k \in DOMAIN store :
                    /\ BytesCompare(begin, k) <= 0
                    /\ BytesCompare(k, end) < 0
                    /\ FilterOk(filter, k, store[k])}
    IN  [k \in keep |-> store[k]]

\* C9: scanRange(B, E) of a Transaction that has written nothing returns
\* exactly the committed keys K with B <= K < E, each with its committed
\* value, and with a filter only those the filter accepts.
C9_ScanRangeExact ==
    [][\A b \in ScanBegins, e \in ScanEnds, f \in Filters :
        (wb[1] = <<>> /\ ScanRange0(1, b, e, f)) =>
            last'.ret.m = InRange(db, b, e, f)]_vars

\* C10: for a prefix P that is neither empty nor all 0xFF, scanValues(P, nil)
\* returns exactly the keys of the Transaction's view that begin with P.
C10_ScanValuesIsPrefixScan ==
    [][\A prefix \in ScanPrefixes \ {<<>>, KFF} :
        ScanValues(1, prefix, "nil") =>
            DOMAIN last'.ret.m =
                {k \in DOMAIN OwnView(1) : HasPrefix(k, prefix)}]_vars

\* a key of 0xFF bytes only (the empty key is not one)
AllFF(key) == key # <<>> /\ \A i \in 1..Len(key) : key[i] = 255

\* keys that have key as a prefix: key itself and key with up to two more
\* bytes
Extensions(key) ==
    {key \o x : x \in UNION {[1..n -> {0, 255}] : n \in 0..2}}

\* C11: for a non-empty key K that is not made of 0xFF bytes only, nextKey(K)
\* returns a key strictly greater than K, and every key with the prefix K is
\* strictly less than it.
C11_NextKeyAbovePrefix ==
    [][\A key \in NextKeyInputs :
        (NextKeyOp(1, key) /\ key # <<>> /\ ~AllFF(key)) =>
            /\ ~last'.ret.panic
            /\ ~last'.ret.isnil
            /\ BytesCompare(key, last'.ret.b) < 0
            /\ \A x \in Extensions(key) :
                    BytesCompare(x, last'.ret.b) < 0]_vars

C11_Witness ==
    /\ last.op = "nextKey"
    /\ last.key = <<97, 255, 255>>
    /\ last.ret.b = <<98, 0, 0>>

\* C12: scanValues with the empty prefix and no filter returns every key of
\* the Transaction's view.
C12_EmptyPrefixScansAll ==
    [][ScanValues(1, <<>>, "nil") =>
            DOMAIN last'.ret.m = DOMAIN OwnView(1)]_vars

\* the key set of scanRange(prefix, nextKey(prefix)) on a view
RangeKeys(view, prefix) ==
    DOMAIN scanRange0(view, prefix, nextKey(prefix).key, "nil")

\* C13: scanKeys(P) fails exactly when nextKey(P) fails, and otherwise
\* returns the key set of scanRange(P, nextKey(P)) on the store contents the
\* adapter iterates, which is the key set of scanValues(P, nil); the set
\* depends on those contents only, so the adapters agree.
C13_ScanKeysIsScanRange ==
    [][\A prefix \in ScanPrefixes :
        ScanKeys(1, prefix) =>
            /\ last'.ret.panic = nextKey(prefix).panic
            /\ ~last'.ret.panic =>
                \E skip \in Skips(1, prefix) :
                    last'.ret.ks =
                        RangeKeys(PrefixSeekView(iterView(1), prefix, skip),
                                  prefix)]_vars

\* C14: exist(P) is true exactly when the Transaction's view holds a key
\* K >= P.
C14_ExistIsSeek ==
    [][\A prefix \in ScanPrefixes :
        Exist(1, prefix) =>
            last'.ret.ok =
                (\E k \in DOMAIN OwnView(1) :
                    BytesCompare(k, prefix) >= 0)]_vars

\* C15: get(K) returns absent exactly when the Transaction's view does not
\* hold K; a key it holds is returned with its value, the empty value too.
C15_GetAbsentIffMissing ==
    [][\A k \in {L2, Ka, KaFF, Kb} :
        Get(1, k) =>
            /\ last'.ret.isnil = (k \notin DOMAIN OwnView(1))
            /\ k \in DOMAIN OwnView(1) =>
                    last'.ret.b = OwnView(1)[k]]_vars

\* C16: a commit the engine fails is a fatal fault, and txn returns no
\* error but nil or the error its work function returned.
C16_CommitFailureIsFatal ==
    [][\A t \in Callers :
        /\ CommitFault(t) => panicked'
        /\ result'[t] # result[t] =>
                \/ result'[t] = "nil"
                \/ result'[t] \in Errors /\ result'[t] = work[t]]_vars

\* C17: a read the engine fails (get, scanRange0, scanKeys, exist) ends in a
\* fatal fault; it returns no absent value, no boolean and no partial scan.
C17_ReadErrorIsFatal ==
    [][last'.op \in {"get:error", "scanRange0:error", "scanKeys:error",
                     "exist:error"} /\ last' # last =>
            panicked' /\ last'.ret.panic]_vars

\* the key cut off right after its last byte that is not 0xFF, that byte
\* incremented by one
RECURSIVE CutAndIncrement(_)
CutAndIncrement(key) ==
    IF key[Len(key)] = 255 THEN CutAndIncrement(SubSeq(key, 1, Len(key) - 1))
    ELSE [key EXCEPT ![Len(key)] = @ + 1]

\* C18: for a non-empty key K that is not made of 0xFF bytes only, nextKey(K)
\* is K cut off right after its last byte that is not 0xFF, with that byte
\* incremented (no bytes follow the incremented one); for a key of 0xFF
\* bytes only nextKey fails fatally.
C18_NextKeyCutsTrailingFF ==
    [][\A key \in NextKeyInputs \ {<<>>} :
        NextKeyOp(1, key) =>
            IF AllFF(key) THEN panicked' /\ last'.ret.panic
            ELSE /\ ~last'.ret.panic
                 /\ last'.ret.b = CutAndIncrement(key)]_vars

\* the steps a Transaction takes: Open and Running are one position here
\* (Begin runs up to the call of the work function); Aborting is the return
\* of an error by the work function, before the rollback
TxnSteps ==
    {<<"None", "Running">>, <<"Running", "Committing">>,
     <<"Running", "Aborting">>, <<"Committing", "Committed">>,
     <<"Aborting", "RolledBack">>}

\* C19: a txn call takes its Transaction forward only, Open -> Running ->
\* (Committing -> Committed | RolledBack); it ends Committed only after work
\* returned nil and RolledBack only after work returned an error; no commit
\* is tried after an error; and once txn has returned, the Transaction is in
\* one of the two final states, holds no pending writes and no engine lock,
\* and is not used again.
C19_TxnStateMachine ==
    [][\A t \in Callers :
        /\ st'[t] # st[t] => <<st[t], st'[t]>> \in TxnSteps
        /\ st'[t] = "Committed" => work'[t] = "nil"
        /\ st'[t] = "RolledBack" => work'[t] \in Errors
        /\ st'[t] = "Committing" => work'[t] = "nil"
        /\ result'[t] # "none" =>
                /\ st'[t] \in {"Committed", "RolledBack"}
                /\ wb'[t] = <<>>
                /\ lock' # t /\ mutex' # t
        /\ result[t] # "none" =>
                /\ st'[t] = st[t]
                /\ result'[t] = result[t]
                /\ wb'[t] = wb[t]]_vars

\* the counter at Ka before the calls: that of the store the first call
\* to start was opened on
InitialCounter ==
    LET t == CHOOSE u \in Callers : st[u] # "None" /\ snap[u].ver = 0
    IN  CounterAt(snap[t].kv, Ka)

\* C20: when both calls, each having added its delta to the counter at Ka
\* once, have returned nil, the committed counter is the initial one plus
\* both deltas.
C20_NoLostUpdate ==
    (/\ \A t \in Callers : st[t] = "Committed" /\ result[t] = "nil"
     /\ Len(wsets) = 2)
        => CounterAt(db, Ka) = InitialCounter + IncrDelta(1) + IncrDelta(2)

====
